---- MODULE Spec2Model ----
(***************************************************************************)
(* Model of the embedded task store (class TaskDatabase): an in-process    *)
(* SQL engine holding one table `tasks`, snapshotted wholesale into the    *)
(* localStorage item 'taskDatabase' after every mutation, with a lazy      *)
(* initialize() awaited at the top of every public method.                 *)
(***************************************************************************)
EXTENDS Integers, Sequences, FiniteSets, TLC

\* ------------------------------------------------------------------ bounds
MaxId == 2          \* largest rowid the model lets AUTOINCREMENT hand out
MaxTime == 1        \* largest value of the clock read by datetime('now')
MaxCalls == 2       \* repository calls started over the whole run
MaxRestarts == 1    \* page reloads / process crashes over the whole run
MaxPending == 2     \* repository calls in flight at the same time
MaxQuota == 1       \* times localStorage.setItem throws over the whole run

\* ------------------------------------------------------- values and inputs
Callers == 1..MaxPending

StatusEnum == {"pending", "in_progress", "completed"}
PriorityEnum == {"low", "medium", "high"}
SettableFields == {"title", "description", "status", "priority"}

\* columns of the table created by initializeDatabase
Columns ==
    {"id", "title", "description", "status", "priority", "user_id",
     "created_at", "updated_at"}

\* every text value that occurs in a row, in a fixed order (its index is the
\* byte the engine's export holds for it)
StrTab ==
    <<"", "a", "b", "d", "pending", "in_progress", "completed", "archived",
      "low", "medium", "high", "urgent", "u1", "u2">>

StrCode(s) == CHOOSE i \in 1..Len(StrTab) : StrTab[i] = s

\* arguments of createTask: <<title, description, priority, userId>>;
\* "undefined" for priority selects the parameter default
CreateInputs ==
    { <<"a", "d", "low", "u1">>,
      <<"b", "d", "undefined", "u2">>,
      <<"", "", "urgent", "u1">> }

\* the `updates` object of updateTask, as its own-property list in key order
UpdateInputs ==
    { <<>>,
      << <<"status", "completed">> >>,
      << <<"title", "b">>, <<"status", "archived">> >>,
      << <<"title", "b">>, <<"user_id", "u2">> >>,
      << <<"title", "b">>, <<"foo", "a">> >>,
      << <<"created_at", MaxTime>> >> }

Ids == 1..MaxId

\* the userId argument of the three list queries
UserIds == {"u1", "u2"}

\* ------------------------------------------------------------ engine state
\* A Database handle.  kind = "null": this.db is null; "notadb": a handle
\* over bytes that are not a database file (every statement throws);
\* "db": a usable database.  schema: the table `tasks` exists.  seq: the
\* AUTOINCREMENT high-water mark (sqlite_sequence).  rows: the table in
\* rowid order.
NullDb == [kind |-> "null", schema |-> FALSE, seq |-> 0, rows |-> <<>>]
NotADb == [kind |-> "notadb", schema |-> FALSE, seq |-> 0, rows |-> <<>>]
EmptyDb == [kind |-> "db", schema |-> FALSE, seq |-> 0, rows |-> <<>>]

Usable(d) == d.kind = "db" /\ d.schema

\* --------------------------------------------------------- snapshot codec
Magic == 83

RowBytes(r) ==
    <<r.id, StrCode(r.title), StrCode(r.description), StrCode(r.status),
      StrCode(r.priority), StrCode(r.user_id), r.created_at, r.updated_at>>

RECURSIVE RowsBytes(_)
RowsBytes(rows) ==
    IF rows = <<>> THEN <<>>
    ELSE RowBytes(Head(rows)) \o RowsBytes(Tail(rows))

\* this.db.export(): the database file image
Export(d) ==
    IF ~d.schema /\ d.rows = <<>> THEN <<>>
    ELSE <<Magic, d.seq>> \o RowsBytes(d.rows)

\* Array.from(data): the bytes as a plain array of numbers
ArrayFrom(bytes) == bytes

NumTok == [n \in 0..255 |-> ToString(n)]

RECURSIVE JoinNums(_)
JoinNums(arr) ==
    IF arr = <<>> THEN <<>>
    ELSE IF Len(arr) = 1 THEN <<NumTok[arr[1]]>>
    ELSE <<NumTok[arr[1]], ",">> \o JoinNums(Tail(arr))

\* JSON.stringify of an array of numbers, as the token list of its text
JsonStringify(arr) == <<"[">> \o JoinNums(arr) \o <<"]">>

\* the number a token of digits denotes
NumOfTok == [t \in {NumTok[n] : n \in 0..255} |->
                CHOOSE n \in 0..255 : NumTok[n] = t]

IsNumTok(t) == t \in DOMAIN NumOfTok
TokNum(t) == NumOfTok[t]

\* JSON.parse restricted to arrays of numbers: ok = FALSE is a SyntaxError
JsonParse(text) ==
    LET n == Len(text)
        inner == IF n >= 2 THEN SubSeq(text, 2, n - 1) ELSE <<>>
        m == Len(inner)
        wellFormed ==
            /\ n >= 2
            /\ text[1] = "[" /\ text[n] = "]"
            /\ (m = 0 \/ m % 2 = 1)
            /\ \A i \in 1..m :
                 IF i % 2 = 1 THEN IsNumTok(inner[i]) ELSE inner[i] = ","
    IN  IF wellFormed
        THEN [ok |-> TRUE,
              arr |-> [i \in 1..((m + 1) \div 2) |-> TokNum(inner[2 * i - 1])]]
        ELSE [ok |-> FALSE, arr |-> <<>>]

\* new Uint8Array(array.length) in place of new Uint8Array(array): as many
\* bytes, all zero
Uint8ArrayOfLength(arr) == [i \in 1..Len(arr) |-> 0]

\* new Uint8Array(array): every element is taken modulo 2^8
Uint8Array(arr) == [i \in 1..Len(arr) |-> arr[i] % 256]

BytesRow(b, k) ==
    [id |-> b[k], title |-> StrTab[b[k + 1]], description |-> StrTab[b[k + 2]],
     status |-> StrTab[b[k + 3]], priority |-> StrTab[b[k + 4]],
     user_id |-> StrTab[b[k + 5]], created_at |-> b[k + 6],
     updated_at |-> b[k + 7]]

\* new SQL.Database(bytes): an empty image is an empty database; an image
\* that is not a database file gives a handle on which every statement throws
Database(bytes) ==
    LET n == Len(bytes)
        cnt == (n - 2) \div 8
        wellFormed ==
            /\ n >= 2
            /\ bytes[1] = Magic
            /\ (n - 2) % 8 = 0
            /\ \A j \in 0..(cnt - 1) : \A f \in 1..5 :
                 bytes[2 + 8 * j + 1 + f] \in 1..Len(StrTab)
    IN  IF n = 0 THEN EmptyDb
        ELSE IF wellFormed
        THEN [kind |-> "db", schema |-> TRUE, seq |-> bytes[2],
              rows |-> [j \in 1..cnt |-> BytesRow(bytes, 2 + 8 * (j - 1) + 1)]]
        ELSE NotADb

\* the value saveToLocalStorage stores for a database
Encode(d) == [present |-> TRUE, text |-> JsonStringify(ArrayFrom(Export(d)))]

\* the value saveToLocalStorage leaves in the slot for database d
SaveToLocalStorage(d) == Encode(d)

\* what initialize() makes of a slot value: the text is used only if truthy
Truthy(s) == s.present /\ s.text # <<>>

\* initialize() without its look at the slot: always `new SQL.Database()`
LoadDbEmpty(s) == EmptyDb

\* the database a fresh process loads from slot value s (initialize, lines
\* 26-32), not yet run through the schema step; s parses
LoadDb(s) ==
    IF Truthy(s) THEN Database(Uint8Array(JsonParse(s.text).arr)) ELSE EmptyDb

\* ------------------------------------------------------------- statements
Max(a, b) == IF a >= b THEN a ELSE b

RECURSIVE MaxRowId(_)
MaxRowId(rows) ==
    IF rows = <<>> THEN 0 ELSE Max(Head(rows).id, MaxRowId(Tail(rows)))

\* CREATE TABLE IF NOT EXISTS tasks (...)
CreateTable(d) == [d EXCEPT !.schema = TRUE]

\* the rowid a plain INTEGER PRIMARY KEY column (no AUTOINCREMENT) gets on
\* the next insert: one more than the largest rowid in the table
NextIdFromRows(d) == MaxRowId(d.rows) + 1

\* the rowid AUTOINCREMENT assigns to the next insert
NextId(d) == Max(d.seq, MaxRowId(d.rows)) + 1

\* the default of createTask's priority parameter
PriorityArg(p) == IF p = "undefined" THEN "medium" ELSE p

\* INSERT INTO tasks (title, description, user_id, created_at, updated_at):
\* the priority column is left to its DEFAULT 'medium'
InsertDefaultPriority(d, title, description, priority, userId, t) ==
    LET id == NextId(d)
        row == [id |-> id, title |-> title, description |-> description,
                status |-> "pending", priority |-> "medium",
                user_id |-> userId, created_at |-> t, updated_at |-> t]
    IN  [d EXCEPT !.rows = Append(@, row), !.seq = id]

\* INSERT INTO tasks (title, description, priority, user_id, created_at,
\* updated_at) VALUES (?, ?, ?, ?, datetime('now'), datetime('now'))
Insert(d, title, description, priority, userId, t) ==
    LET id == NextId(d)
        row == [id |-> id, title |-> title, description |-> description,
                status |-> "pending", priority |-> priority,
                user_id |-> userId, created_at |-> t, updated_at |-> t]
    IN  [d EXCEPT !.rows = Append(@, row), !.seq = id]

\* Object.keys(updates)
KeySet(updates) == {updates[i][1] : i \in 1..Len(updates)}

\* SET f1 = ?, f2 = ?, ... applied to one row, left to right
RECURSIVE SetFields(_, _)
SetFields(r, updates) ==
    IF updates = <<>> THEN r
    ELSE SetFields([r EXCEPT ![Head(updates)[1]] = Head(updates)[2]],
                   Tail(updates))

\* UPDATE tasks SET <fields> WHERE id = ?: the statement without its
\* `updated_at = datetime('now')`
UpdateKeepStamp(d, id, updates, t) ==
    [d EXCEPT !.rows =
        [i \in 1..Len(@) |->
            IF @[i].id = id THEN SetFields(@[i], updates) ELSE @[i]]]

\* UPDATE tasks SET <fields>, updated_at = datetime('now') WHERE id = ?
Update(d, id, updates, t) ==
    [d EXCEPT !.rows =
        [i \in 1..Len(@) |->
            IF @[i].id = id
            THEN [SetFields(@[i], updates) EXCEPT !.updated_at = t]
            ELSE @[i]]]

\* the statement compiles only if every SET target is a column of tasks
Prepares(updates) == KeySet(updates) \subseteq Columns

\* DELETE FROM tasks: the statement without its WHERE clause
DeleteAll(d, id) == [d EXCEPT !.rows = <<>>]

\* DELETE FROM tasks WHERE id = ?
Delete(d, id) ==
    [d EXCEPT !.rows = SelectSeq(@, LAMBDA r : r.id # id)]

\* SELECT * FROM tasks WHERE id = ?
SelectById(d, id) == SelectSeq(d.rows, LAMBDA r : r.id = id)

\* the orders of 1..n
Perms(n) ==
    {f \in [1..n -> 1..n] : \A i, j \in 1..n : i # j => f[i] # f[j]}

\* ORDER BY created_at DESC: the rows by falling created_at; the statement
\* names no second sort key, so rows of equal created_at come in whichever
\* order the engine produces
OrderByCreatedAtDesc(rows) ==
    LET n == Len(rows) IN
    IF n = 0 THEN {<<>>}
    ELSE {[i \in 1..n |-> rows[f[i]]] :
            f \in {g \in Perms(n) :
                     \A i \in 1..(n - 1) :
                        rows[g[i]].created_at >= rows[g[i + 1]].created_at}}

\* SELECT * FROM tasks WHERE user_id = ? ORDER BY created_at DESC
SelectByUser(d, userId) ==
    OrderByCreatedAtDesc(SelectSeq(d.rows, LAMBDA r : r.user_id = userId))

\* SELECT * FROM tasks WHERE status = ? ORDER BY created_at DESC: the
\* statement without its user_id condition
SelectByStatusAnyUser(d, status, userId) ==
    OrderByCreatedAtDesc(SelectSeq(d.rows, LAMBDA r : r.status = status))

\* SELECT * FROM tasks WHERE status = ? AND user_id = ?
\* ORDER BY created_at DESC
SelectByStatus(d, status, userId) ==
    OrderByCreatedAtDesc(
        SelectSeq(d.rows, LAMBDA r : r.status = status /\ r.user_id = userId))

\* SELECT * FROM tasks WHERE priority = ? AND user_id = ?
\* ORDER BY created_at DESC
SelectByPriority(d, priority, userId) ==
    OrderByCreatedAtDesc(
        SelectSeq(d.rows,
                  LAMBDA r : r.priority = priority /\ r.user_id = userId))

\* the ids of the rows of the table
RowIds(d) == {d.rows[i].id : i \in 1..Len(d.rows)}

\* ------------------------------------------------------------------ state
VARIABLES
    slot,         \* localStorage item 'taskDatabase': [present, text]
    db,           \* this.db
    initialized,  \* this.initialized
    now,          \* the last value datetime('now') returned
    pc,           \* per pending call: where it is suspended
    op,           \* per pending call: the method and its arguments
    target,       \* per pending call: the id its getTaskById looks up
    callNo,       \* per pending call: its number
    ret,          \* the call that settled last: method, outcome, rows
    calls,        \* calls started so far
    restarts,     \* reloads and crashes so far
    engines,      \* Database objects constructed by this process
    owner,        \* id -> userId argument of the createTask that made it
    memMuts,      \* numbers of the calls whose mutation this.db reflects
    slotMuts,     \* numbers of the calls whose mutation the slot reflects
    durable,      \* the database as of the last completed save
    acked,        \* numbers of the mutating calls that resolved
    quotas,       \* times setItem has thrown
    crash,        \* number of the call a crash interrupted before its save
    everSaved,    \* ids of the tasks a completed save has stored
    missed        \* numbers of the updateTask calls whose UPDATE hit no row

vars ==
    <<slot, db, initialized, now, pc, op, target, callNo, ret, calls,
      restarts, engines, owner, memMuts, slotMuts, durable, acked, quotas,
      crash, everSaved, missed>>

NoOp == [name |-> "none", args |-> <<>>, id |-> 0, updates |-> <<>>]

CreateOp(a) ==
    [name |-> "createTask", args |-> a, id |-> 0, updates |-> <<>>]
UpdateOp(id, u) ==
    [name |-> "updateTask", args |-> <<>>, id |-> id, updates |-> u]
DeleteOp(id) ==
    [name |-> "deleteTask", args |-> <<>>, id |-> id, updates |-> <<>>]
GetOp(id) ==
    [name |-> "getTaskById", args |-> <<>>, id |-> id, updates |-> <<>>]

QueryOp(name) ==
    [name |-> name, args |-> <<>>, id |-> 0, updates |-> <<>>]

NoRet == [name |-> "none", outcome |-> "none", rows |-> <<>>]

AbsentSlot == [present |-> FALSE, text |-> <<>>]

\* a database an earlier session may have left in the slot: one task
SeedOne == Insert(CreateTable(EmptyDb), "a", "d", "low", "u1", 0)

\* what the slot may hold when the page is opened: nothing, the empty
\* string, text that is not JSON, a JSON array that is not a database image,
\* the image of a database without tables, or an earlier session's snapshot
InitialSlots ==
    { AbsentSlot,
      [present |-> TRUE, text |-> <<>>],
      [present |-> TRUE, text |-> <<"{">>],
      [present |-> TRUE, text |-> <<"[", "1", ",", "2", "]">>],
      [present |-> TRUE, text |-> <<"[", "]">>],
      Encode(SeedOne) }

Init ==
    /\ slot \in InitialSlots
    /\ db = NullDb
    /\ initialized = FALSE
    /\ now = 0
    /\ pc = [c \in Callers |-> "idle"]
    /\ op = [c \in Callers |-> NoOp]
    /\ target = [c \in Callers |-> 0]
    /\ callNo = [c \in Callers |-> 0]
    /\ ret = NoRet
    /\ calls = 0
    /\ restarts = 0
    /\ engines = 0
    /\ owner = IF slot = Encode(SeedOne) THEN (1 :> "u1") ELSE <<>>
    /\ memMuts = {}
    /\ slotMuts = {}
    /\ durable = IF slot = Encode(SeedOne) THEN SeedOne ELSE NullDb
    /\ acked = {}
    /\ quotas = 0
    /\ crash = 0
    /\ everSaved = IF slot = Encode(SeedOne) THEN {1} ELSE {}
    /\ missed = {}

\* a call whose body writes: updateTask with no field returns before it does
Mutating(o) ==
    \/ o.name \in {"createTask", "deleteTask"}
    \/ o.name = "updateTask" /\ o.updates # <<>>

\* a method that does not begin with `await this.initialize()`: it goes on
\* to its body whatever the flag says
EnterInitializeNoAwait(resumeAt, waitAt) == resumeAt

\* initialize() without its first line `if (this.initialized) return`: it
\* starts initSqlJs and waits for it whatever the flag says
EnterInitializeAgain(resumeAt, waitAt) == waitAt

\* `await this.initialize()` up to its first suspension: with the flag set
\* it returns at once, otherwise it starts initSqlJs and waits for it
EnterInitialize(resumeAt, waitAt) ==
    IF initialized THEN resumeAt ELSE waitAt

\* the database a fresh process ends up with after initialize() has loaded
\* slot value s and run the schema step
Reload(s) ==
    IF Truthy(s) /\ ~JsonParse(s.text).ok THEN NotADb
    ELSE IF LoadDb(s).kind # "db" THEN NotADb
    ELSE CreateTable(LoadDb(s))

\* the promise of pending call c, which turned out to be call o, settles
Settle(c, o, outcome, rows) ==
    /\ ret' = [name |-> o.name, outcome |-> outcome, rows |-> rows]
    /\ pc' = [pc EXCEPT ![c] = "idle"]
    /\ op' = [op EXCEPT ![c] = NoOp]
    /\ target' = [target EXCEPT ![c] = 0]
    /\ callNo' = [callNo EXCEPT ![c] = 0]

\* `return this.getTaskById(id)`: the nested call runs up to its own await
ReturnGetTaskById(c, o, id) ==
    /\ pc' = [pc EXCEPT ![c] = EnterInitialize("gBody", "gInit")]
    /\ op' = [op EXCEPT ![c] = o]
    /\ target' = [target EXCEPT ![c] = id]
    /\ UNCHANGED <<callNo, ret>>

\* ---------------------------------------------------------------- actions
\* A public method is invoked and runs up to the await on its first line.
\* Every method starts with the same line, and nothing reads the arguments
\* before the body runs, so they are bound there.  Pending calls are told
\* apart by a number only: a new one takes the lowest free one.
Call(c) ==
    /\ pc[c] = "idle"
    /\ \A b \in Callers : b < c => pc[b] # "idle"
    /\ calls < MaxCalls
    /\ calls' = calls + 1
    /\ callNo' = [callNo EXCEPT ![c] = calls + 1]
    /\ pc' = [pc EXCEPT ![c] = EnterInitialize("body", "init")]
    /\ UNCHANGED <<slot, db, initialized, now, op, target, ret, restarts,
                   engines, owner, memMuts, slotMuts, durable, acked, quotas,
                   crash, everSaved, missed>>

\* initialize() with `this.initialized = true` moved up, before the slot is
\* read: the flag is set even when decoding or the schema step throws
InitResumeFlagFirst(c, quota) ==
    /\ pc[c] \in {"init", "gInit"}
    /\ IF Truthy(slot) /\ ~JsonParse(slot.text).ok
       THEN \* JSON.parse throws
            /\ Settle(c, op[c], "rejected", <<>>)
            /\ initialized' = TRUE
            /\ UNCHANGED <<slot, db, engines, memMuts, slotMuts, durable,
                           everSaved>>
       ELSE LET loaded == LoadDb(slot) IN
            /\ engines' = engines + 1
            /\ IF loaded.kind # "db"
               THEN \* this.db.run(createTableQuery) throws
                    /\ db' = loaded
                    /\ Settle(c, op[c], "rejected", <<>>)
                    /\ initialized' = TRUE
                    /\ UNCHANGED <<slot, memMuts, slotMuts, durable,
                                   everSaved>>
               ELSE /\ db' = CreateTable(loaded)
                    /\ memMuts' = slotMuts
                    /\ IF quota
                       THEN /\ Settle(c, op[c], "rejected", <<>>)
                            /\ UNCHANGED <<slot, initialized, slotMuts,
                                           durable, everSaved>>
                       ELSE /\ slot' = SaveToLocalStorage(db')
                            /\ slotMuts' = memMuts'
                            /\ durable' = db'
                            /\ everSaved' = everSaved \cup RowIds(db')
                            /\ initialized' = TRUE
                            /\ pc' = [pc EXCEPT ![c] =
                                 IF pc[c] = "init" THEN "body" ELSE "gBody"]
                            /\ UNCHANGED <<op, target, callNo, ret>>
    /\ quotas' = IF quota /\ Reload(slot).kind = "db" THEN quotas + 1
                  ELSE quotas
    /\ UNCHANGED <<now, calls, restarts, owner, acked, crash, missed>>

\* initialize() resumes after initSqlJs: lines 26-35, with
\* initializeDatabase and its saveToLocalStorage.  quota: setItem throws.
InitResume(c, quota) ==
    /\ pc[c] \in {"init", "gInit"}
    /\ IF Truthy(slot) /\ ~JsonParse(slot.text).ok
       THEN \* JSON.parse throws
            /\ Settle(c, op[c], "rejected", <<>>)
            /\ UNCHANGED <<slot, db, initialized, engines, memMuts, slotMuts,
                           durable, everSaved>>
       ELSE LET loaded == LoadDb(slot) IN
            /\ engines' = engines + 1
            /\ IF loaded.kind # "db"
               THEN \* this.db.run(createTableQuery) throws
                    /\ db' = loaded
                    /\ Settle(c, op[c], "rejected", <<>>)
                    /\ UNCHANGED <<slot, initialized, memMuts, slotMuts,
                                   durable, everSaved>>
               ELSE /\ db' = CreateTable(loaded)
                    /\ memMuts' = slotMuts
                    /\ IF quota
                       THEN /\ Settle(c, op[c], "rejected", <<>>)
                            /\ UNCHANGED <<slot, initialized, slotMuts,
                                           durable, everSaved>>
                       ELSE /\ slot' = SaveToLocalStorage(db')
                            /\ slotMuts' = memMuts'
                            /\ durable' = db'
                            /\ everSaved' = everSaved \cup RowIds(db')
                            /\ initialized' = TRUE
                            /\ pc' = [pc EXCEPT ![c] =
                                 IF pc[c] = "init" THEN "body" ELSE "gBody"]
                            /\ UNCHANGED <<op, target, callNo, ret>>
    /\ quotas' = IF quota /\ Reload(slot).kind = "db" THEN quotas + 1
                  ELSE quotas
    /\ UNCHANGED <<now, calls, restarts, owner, acked, crash, missed>>

\* createTask(a[1], a[2], a[3], a[4]) after its await: lines 65-74, reading
\* the clock at t
CreateBody(c, a, t, quota) ==
    /\ pc[c] = "body"
    /\ IF ~Usable(db)
       THEN /\ Settle(c, CreateOp(a), "rejected", <<>>)
            /\ UNCHANGED <<slot, db, now, owner, memMuts, slotMuts, durable,
                           everSaved>>
       ELSE /\ NextId(db) <= MaxId
            /\ now' = t
            /\ db' = Insert(db, a[1], a[2], PriorityArg(a[3]), a[4], t)
            /\ memMuts' = memMuts \cup {callNo[c]}
            /\ owner' = (NextId(db) :> a[4]) @@ owner
            /\ IF quota
               THEN /\ Settle(c, CreateOp(a), "rejected", <<>>)
                    /\ UNCHANGED <<slot, slotMuts, durable, everSaved>>
               ELSE /\ slot' = SaveToLocalStorage(db')
                    /\ slotMuts' = memMuts'
                    /\ durable' = db'
                    /\ everSaved' = everSaved \cup RowIds(db')
                    /\ ReturnGetTaskById(c, CreateOp(a), db'.seq)
    /\ quotas' = IF quota /\ Usable(db) THEN quotas + 1 ELSE quotas
    /\ UNCHANGED <<initialized, calls, restarts, engines, acked, crash,
                   missed>>

\* updateTask without `if (fields.length === 0) return this.getTaskById(id)`:
\* an empty set of fields still runs the UPDATE, which stamps updated_at,
\* and saves
UpdateBodyAlwaysWrites(c, id, u, t, quota) ==
    /\ pc[c] = "body"
    /\ IF ~Usable(db) \/ ~Prepares(u)
       THEN /\ Settle(c, UpdateOp(id, u), "rejected", <<>>)
            /\ UNCHANGED <<slot, db, now, memMuts, slotMuts, durable,
                           everSaved, missed>>
       ELSE /\ now' = t
            /\ db' = Update(db, id, u, t)
            /\ memMuts' = memMuts \cup {callNo[c]}
            /\ missed' = IF SelectById(db, id) = <<>>
                          THEN missed \cup {callNo[c]} ELSE missed
            /\ IF quota
               THEN /\ Settle(c, UpdateOp(id, u), "rejected", <<>>)
                    /\ UNCHANGED <<slot, slotMuts, durable, everSaved>>
               ELSE /\ slot' = SaveToLocalStorage(db')
                    /\ slotMuts' = memMuts'
                    /\ durable' = db'
                    /\ everSaved' = everSaved \cup RowIds(db')
                    /\ ReturnGetTaskById(c, UpdateOp(id, u), id)
    /\ quotas' = IF quota /\ Usable(db) /\ Prepares(u)
                  THEN quotas + 1 ELSE quotas
    /\ UNCHANGED <<initialized, calls, restarts, engines, owner, acked,
                   crash>>

\* updateTask(id, u) after its await: lines 117-132, reading the clock at t
UpdateBody(c, id, u, t, quota) ==
    /\ pc[c] = "body"
    /\ IF u = <<>>
       THEN /\ ReturnGetTaskById(c, UpdateOp(id, u), id)
            /\ UNCHANGED <<slot, db, now, memMuts, slotMuts, durable,
                           everSaved, missed>>
       ELSE IF ~Usable(db) \/ ~Prepares(u)
       THEN /\ Settle(c, UpdateOp(id, u), "rejected", <<>>)
            /\ UNCHANGED <<slot, db, now, memMuts, slotMuts, durable,
                           everSaved, missed>>
       ELSE /\ now' = t
            /\ db' = Update(db, id, u, t)
            /\ memMuts' = memMuts \cup {callNo[c]}
            /\ missed' = IF SelectById(db, id) = <<>>
                          THEN missed \cup {callNo[c]} ELSE missed
            /\ IF quota
               THEN /\ Settle(c, UpdateOp(id, u), "rejected", <<>>)
                    /\ UNCHANGED <<slot, slotMuts, durable, everSaved>>
               ELSE /\ slot' = SaveToLocalStorage(db')
                    /\ slotMuts' = memMuts'
                    /\ durable' = db'
                    /\ everSaved' = everSaved \cup RowIds(db')
                    /\ ReturnGetTaskById(c, UpdateOp(id, u), id)
    /\ quotas' = IF quota /\ u # <<>> /\ Usable(db) /\ Prepares(u)
                  THEN quotas + 1 ELSE quotas
    /\ UNCHANGED <<initialized, calls, restarts, engines, owner, acked,
                   crash>>

\* deleteTask without its saveToLocalStorage() line
DeleteBodyNoSave(c, id, quota) ==
    /\ pc[c] = "body"
    /\ IF ~Usable(db)
       THEN /\ Settle(c, DeleteOp(id), "rejected", <<>>)
            /\ UNCHANGED <<db, memMuts, acked>>
       ELSE /\ db' = Delete(db, id)
            /\ memMuts' = memMuts \cup {callNo[c]}
            /\ Settle(c, DeleteOp(id), "ok", <<>>)
            /\ acked' = acked \cup {callNo[c]}
    /\ UNCHANGED <<slot, slotMuts, durable, initialized, now, calls, restarts,
                   engines, owner, quotas, crash, everSaved, missed>>

\* deleteTask(id) after its await: lines 138-142
DeleteBody(c, id, quota) ==
    /\ pc[c] = "body"
    /\ IF ~Usable(db)
       THEN /\ Settle(c, DeleteOp(id), "rejected", <<>>)
            /\ UNCHANGED <<slot, db, memMuts, slotMuts, durable, acked,
                           everSaved>>
       ELSE /\ db' = Delete(db, id)
            /\ memMuts' = memMuts \cup {callNo[c]}
            /\ IF quota
               THEN /\ Settle(c, DeleteOp(id), "rejected", <<>>)
                    /\ UNCHANGED <<slot, slotMuts, durable, acked, everSaved>>
               ELSE /\ slot' = SaveToLocalStorage(db')
                    /\ slotMuts' = memMuts'
                    /\ durable' = db'
                    /\ everSaved' = everSaved \cup RowIds(db')
                    /\ Settle(c, DeleteOp(id), "ok", <<>>)
                    /\ acked' = acked \cup {callNo[c]}
    /\ quotas' = IF quota /\ Usable(db) THEN quotas + 1 ELSE quotas
    /\ UNCHANGED <<initialized, now, calls, restarts, engines, owner, crash,
                   missed>>

\* getTaskById(id) after its await: lines 98-111, called directly or as the
\* re-read that createTask and updateTask return
GetByIdBody(c, id) ==
    /\ \/ pc[c] = "gBody" /\ id = target[c]
       \/ pc[c] = "body"
    /\ LET o == IF pc[c] = "gBody" THEN op[c] ELSE GetOp(id) IN
       IF ~Usable(db)
       THEN /\ Settle(c, o, "rejected", <<>>)
            /\ UNCHANGED acked
       ELSE /\ Settle(c, o, "ok", SelectById(db, id))
            /\ acked' = IF Mutating(o) THEN acked \cup {callNo[c]} ELSE acked
    /\ UNCHANGED <<slot, db, initialized, now, calls, restarts, engines,
                   owner, memMuts, slotMuts, durable, quotas, crash,
                   everSaved, missed>>

\* a list query that also calls saveToLocalStorage() before it returns
QueryBodyAndSave(c, name, results) ==
    /\ pc[c] = "body"
    /\ IF ~Usable(db)
       THEN /\ Settle(c, QueryOp(name), "rejected", <<>>)
            /\ UNCHANGED slot
       ELSE /\ \E out \in results : Settle(c, QueryOp(name), "ok", out)
            /\ slot' = SaveToLocalStorage(db)
    /\ UNCHANGED <<db, initialized, now, calls, restarts, engines,
                   owner, memMuts, slotMuts, durable, acked, quotas, crash,
                   everSaved, missed>>

\* a list query after its await: the statement gives one of the row
\* sequences in `results`; it is mapped to objects and returned
QueryBody(c, name, results) ==
    /\ pc[c] = "body"
    /\ IF ~Usable(db)
       THEN Settle(c, QueryOp(name), "rejected", <<>>)
       ELSE \E out \in results : Settle(c, QueryOp(name), "ok", out)
    /\ UNCHANGED <<slot, db, initialized, now, calls, restarts, engines,
                   owner, memMuts, slotMuts, durable, acked, quotas, crash,
                   everSaved, missed>>

\* getAllTasks(userId) after its await: lines 80-92
GetAllTasksBody(c, userId) ==
    QueryBody(c, "getAllTasks", SelectByUser(db, userId))

\* getTasksByStatus(status, userId) after its await: lines 148-160
GetTasksByStatusBody(c, status, userId) ==
    QueryBody(c, "getTasksByStatus", SelectByStatus(db, status, userId))

\* getTasksByPriority(priority, userId) after its await: lines 166-178
GetTasksByPriorityBody(c, priority, userId) ==
    QueryBody(c, "getTasksByPriority",
              SelectByPriority(db, priority, userId))

\* the process state a reload starts from; the slot survives
FreshProcess ==
    /\ db' = NullDb
    /\ initialized' = FALSE
    /\ pc' = [c \in Callers |-> "idle"]
    /\ op' = [c \in Callers |-> NoOp]
    /\ target' = [c \in Callers |-> 0]
    /\ callNo' = [c \in Callers |-> 0]
    /\ ret' = NoRet
    /\ engines' = 0
    /\ memMuts' = {}
    /\ missed' = {}
    /\ restarts' = restarts + 1
    /\ UNCHANGED <<slot, now, calls, owner, slotMuts, durable, acked,
                   quotas, everSaved>>

\* the page is reloaded between two steps
Restart ==
    /\ restarts < MaxRestarts
    /\ FreshProcess
    /\ UNCHANGED crash

\* the process dies inside the body of a createTask, an updateTask that
\* writes or a deleteTask, after stmt.run and before saveToLocalStorage has
\* written: the mutation was in memory only
CrashBeforeSave(c) ==
    /\ restarts < MaxRestarts
    /\ pc[c] = "body"
    /\ Usable(db)
    /\ FreshProcess
    /\ crash' = callNo[c]

\* whether the next setItem may throw QuotaExceededError
QuotaChoices == IF quotas < MaxQuota THEN BOOLEAN ELSE {FALSE}

Next ==
    \/ \E c \in Callers : Call(c)
    \/ \E c \in Callers : \E quota \in QuotaChoices : InitResume(c, quota)
    \/ \E c \in Callers : \E a \in CreateInputs : \E t \in now..MaxTime :
          \E quota \in QuotaChoices : CreateBody(c, a, t, quota)
    \/ \E c \in Callers : \E id \in Ids : \E u \in UpdateInputs :
          \E t \in now..MaxTime : \E quota \in QuotaChoices :
             UpdateBody(c, id, u, t, quota)
    \/ \E c \in Callers : \E id \in Ids : \E quota \in QuotaChoices :
          DeleteBody(c, id, quota)
    \/ \E c \in Callers : \E id \in Ids : GetByIdBody(c, id)
    \/ \E c \in Callers : \E userId \in UserIds :
          GetAllTasksBody(c, userId)
    \/ \E c \in Callers : \E status \in StatusEnum : \E userId \in UserIds :
          GetTasksByStatusBody(c, status, userId)
    \/ \E c \in Callers : \E priority \in PriorityEnum :
          \E userId \in UserIds :
             GetTasksByPriorityBody(c, priority, userId)
    \/ Restart
    \/ \E c \in Callers : CrashBeforeSave(c)

Spec == Init /\ [][Next]_vars

\* --------------------------------------------- the server-backed REST path
\* the lists the handlers of /api/tasks test priority, status and field
\* names against
RestPriorities == {"low", "medium", "high"}
RestStatuses == {"pending", "in_progress", "completed"}
allowedFields == {"title", "description", "status", "priority"}

\* updates[key], "" standing for undefined
Field(updates, key) ==
    IF key \in KeySet(updates)
    THEN updates[CHOOSE i \in 1..Len(updates) : updates[i][1] = key][2]
    ELSE ""

\* POST /api/tasks with body {title, description, priority}: the status of
\* the response
PostTask(a) ==
    IF a[1] = "" \/ a[2] = "" THEN 400
    ELSE IF PriorityArg(a[3]) \notin RestPriorities THEN 400
    ELSE 201

\* PUT /api/tasks/:id with body `updates`, for a row the user owns iff
\* `owned`: the status of the response
PutTask(updates, owned) ==
    IF updates = <<>> THEN 400
    ELSE IF Field(updates, "status") # ""
            /\ Field(updates, "status") \notin RestStatuses THEN 400
    ELSE IF Field(updates, "priority") # ""
            /\ Field(updates, "priority") \notin RestPriorities THEN 400
    ELSE IF KeySet(updates) \cap allowedFields = {} THEN 400
    ELSE IF ~owned THEN 404
    ELSE 200

\* DELETE /api/tasks/:id, for a row the user owns iff `owned`: the status
\* of the response
DeleteTask(owned) == IF owned THEN 200 ELSE 404

\* ----------------------------------------------------------- properties
\* the slot holds something that is not the encoding of a database
Undecodable(s) ==
    /\ s.present
    /\ \/ ~JsonParse(s.text).ok
       \/ Database(Uint8Array(JsonParse(s.text).arr)).kind # "db"

InvalidCreate(a) ==
    a[1] = "" \/ a[2] = "" \/ PriorityArg(a[3]) \notin PriorityEnum

InvalidUpdate(u) ==
    \E i \in 1..Len(u) :
        \/ u[i][1] = "status" /\ u[i][2] \notin StatusEnum
        \/ u[i][1] = "priority" /\ u[i][2] \notin PriorityEnum

\* the entries of an updates object whose key update() may set
Recognized(u) == SelectSeq(u, LAMBDA e : e[1] \in SettableFields)

\* pending call c resolves in this step, and it is a call that wrote
ResolvesMutation(c) ==
    /\ pc[c] # "idle" /\ pc'[c] = "idle"
    /\ ret'.outcome = "ok"
    /\ \/ ret'.name = "deleteTask"
       \/ pc[c] = "gBody" /\ Mutating(op[c])

\* C1: however many callers enter initialize() before one of them has
\* completed, one of them does the load-or-create and schema step, so a
\* process constructs at most one engine.
C1_OneEnginePerProcess == engines <= 1

\* C2: when a mutating call (createTask, updateTask with a field,
\* deleteTask) resolves, the slot holds the encoding of the engine's
\* complete current state.
C2_SlotCurrentOnReturn ==
    [][\A c \in Callers : ResolvesMutation(c) => slot' = Encode(db')]_vars

\* C3: round trip: saving the engine and loading the slot into a fresh
\* engine (restart, then initialize) gives the same task rows, equal on
\* every field, and the same id counter.
C3_RoundTrip == Usable(db) => Reload(SaveToLocalStorage(db)) = db

C3_Witness ==
    /\ Usable(db)
    /\ Len(db.rows) = 2
    /\ db.rows[1].status = "completed"
    /\ db.rows[2].user_id = "u2"

\* C4: if the snapshot in the slot cannot be decoded during initialize(),
\* the initialization fails: the call is rejected, the store stays
\* uninitialized and no usable (empty) engine is put in its place.
C4_CorruptSnapshotIsFatal ==
    [][\A c \in Callers :
         (Undecodable(slot) /\ \E quota \in QuotaChoices : InitResume(c, quota))
         => (~initialized' /\ ~Usable(db') /\ ret'.outcome = "rejected")]_vars

\* C5: after a crash between a mutation and its save, the state reloaded
\* from the slot is the state of the last completed save, and it reflects
\* the mutation of every call that resolved before: at most the interrupted
\* mutation is missing.
C5_CrashLosesAtMostLast ==
    crash # 0 => (acked \subseteq slotMuts /\ Reload(slot) = durable)

C5_Witness ==
    /\ crash # 0
    /\ crash \notin slotMuts
    /\ acked # {}
    /\ Reload(slot).rows # <<>>
    /\ db = NullDb

\* C6: createTask with an empty title, an empty description or a priority
\* outside {low, medium, high} is rejected before any engine call: no row
\* is inserted, no id is consumed, the slot is not rewritten.
C6_CreateValidates ==
    [][\A c \in Callers : \A a \in CreateInputs : \A t \in 0..MaxTime :
         \A quota \in BOOLEAN :
           (InvalidCreate(a) /\ CreateBody(c, a, t, quota))
           => (db' = db /\ slot' = slot /\ ret'.outcome = "rejected")]_vars

\* C7: updateTask with a status outside {pending, in_progress, completed}
\* or a priority outside {low, medium, high} aborts before any write: the
\* row is unchanged and updated_at is not refreshed.
C7_UpdateValidates ==
    [][\A c \in Callers : \A id \in Ids : \A u \in UpdateInputs :
         \A t \in 0..MaxTime : \A quota \in BOOLEAN :
           (InvalidUpdate(u) /\ UpdateBody(c, id, u, t, quota))
           => (db' = db /\ slot' = slot /\ ret'.outcome = "rejected")]_vars

\* C8: the status of every stored task is one of pending, in_progress,
\* completed and its priority is one of low, medium, high.
C8_EnumsValid ==
    \A i \in 1..Len(db.rows) :
        /\ db.rows[i].status \in StatusEnum
        /\ db.rows[i].priority \in PriorityEnum

\* C9: updateTask applies only title, description, status and priority:
\* any other field name in the input is ignored and the recognized fields
\* of the same call are still applied.
C9_UpdateAppliesOnlySettable ==
    [][\A c \in Callers : \A id \in Ids : \A u \in UpdateInputs :
         \A t \in 0..MaxTime :
           (/\ Usable(db) /\ u # <<>> /\ ~InvalidUpdate(u)
            /\ UpdateBody(c, id, u, t, FALSE))
           => db' = Update(db, id, Recognized(u), t)]_vars

\* C10: the user_id of a task never changes: it is the userId passed to the
\* createTask that made the task.
C10_UserIdImmutable ==
    \A i \in 1..Len(db.rows) :
        db.rows[i].id \in DOMAIN owner
            => db.rows[i].user_id = owner[db.rows[i].id]

\* the promise of pending call c is rejected in this step
Rejects(c) ==
    pc[c] # "idle" /\ pc'[c] = "idle" /\ ret'.outcome = "rejected"

\* C11: when the save fails after a create, update or delete has been
\* applied in memory, the call is not reported as failed (the failure is a
\* warning next to the result), and the mutation stays applied in memory.
C11_SaveFailureIsWarning ==
    [][\A c \in Callers :
         /\ \A a \in CreateInputs : \A t \in 0..MaxTime :
              (Usable(db) /\ CreateBody(c, a, t, TRUE))
              => (/\ ~Rejects(c)
                  /\ db' = Insert(db, a[1], a[2], PriorityArg(a[3]), a[4], t))
         /\ \A id \in Ids : \A u \in UpdateInputs : \A t \in 0..MaxTime :
              (Usable(db) /\ u # <<>> /\ Prepares(u)
               /\ UpdateBody(c, id, u, t, TRUE))
              => (~Rejects(c) /\ db' = Update(db, id, u, t))
         /\ \A id \in Ids :
              (Usable(db) /\ DeleteBody(c, id, TRUE))
              => (~Rejects(c) /\ db' = Delete(db, id))]_vars

\* C12: task ids are unique and strictly increasing in creation order and
\* never reused: the id a createTask assigns (and looks up for its result)
\* is greater than the id of every task in the table and of every task a
\* save has ever stored, deleted ones and ones from before a restart
\* included.
C12_IdsNeverReused ==
    [][\A c \in Callers : \A a \in CreateInputs : \A t \in 0..MaxTime :
         (Usable(db) /\ CreateBody(c, a, t, FALSE))
         => (/\ \A i \in everSaved \cup RowIds(db) : db'.seq > i
             /\ target'[c] = db'.seq
             /\ Cardinality(RowIds(db')) = Len(db'.rows))]_vars

C12_Witness ==
    /\ restarts = 1
    /\ everSaved = {1, 2}
    /\ RowIds(db) = {2}
    /\ ret.name = "createTask" /\ ret.outcome = "ok"
    /\ Len(ret.rows) = 1 /\ ret.rows[1].id = 2

\* C13: for valid inputs, right after createTask has inserted and saved,
\* getTaskById on the id it returns finds one record with the caller's
\* title, description, priority (medium when left out) and userId, an
\* engine-assigned id and created_at equal to updated_at.
C13_CreateThenGetById ==
    [][\A c \in Callers : \A a \in CreateInputs : \A t \in 0..MaxTime :
         (Usable(db) /\ ~InvalidCreate(a) /\ CreateBody(c, a, t, FALSE))
         => LET found == SelectById(db', target'[c]) IN
            /\ Len(found) = 1
            /\ found[1].id = target'[c] /\ found[1].id \in Ids
            /\ found[1].title = a[1]
            /\ found[1].description = a[2]
            /\ found[1].priority = PriorityArg(a[3])
            /\ found[1].user_id = a[4]
            /\ found[1].created_at = t
            /\ found[1].updated_at = found[1].created_at]_vars

C13_Witness ==
    /\ ret.name = "createTask" /\ ret.outcome = "ok"
    /\ Len(ret.rows) = 1
    /\ ret.rows[1].id = 2
    /\ ret.rows[1].title = "a" /\ ret.rows[1].priority = "low"
    /\ ret.rows[1].user_id = "u1"
    /\ ret.rows[1].created_at = 1 /\ ret.rows[1].updated_at = 1
    /\ SelectById(db, 2) = ret.rows

\* the elements of a sequence
Range(seq) == {seq[i] : i \in 1..Len(seq)}

\* the rows of the table
Rows == Range(db.rows)

\* C14: getAllTasks(userId), getTasksByStatus(value, userId) and
\* getTasksByPriority(value, userId) return exactly the rows of that user
\* (and of that status resp. priority): no row of another user, no row with
\* another value, no matching row left out, no row twice.
C14_QueriesAreUserScoped ==
    [][\A c \in Callers : \A userId \in UserIds :
         /\ (Usable(db) /\ GetAllTasksBody(c, userId))
            => (/\ Range(ret'.rows) = {r \in Rows : r.user_id = userId}
                /\ Len(ret'.rows) = Cardinality(Range(ret'.rows)))
         /\ \A status \in StatusEnum :
              (Usable(db) /\ GetTasksByStatusBody(c, status, userId))
              => (/\ Range(ret'.rows) =
                       {r \in Rows : r.user_id = userId /\ r.status = status}
                  /\ Len(ret'.rows) = Cardinality(Range(ret'.rows)))
         /\ \A priority \in PriorityEnum :
              (Usable(db) /\ GetTasksByPriorityBody(c, priority, userId))
              => (/\ Range(ret'.rows) =
                       {r \in Rows :
                          r.user_id = userId /\ r.priority = priority}
                  /\ Len(ret'.rows) = Cardinality(Range(ret'.rows)))]_vars

C14_Witness ==
    /\ ret.name = "getTasksByStatus" /\ ret.outcome = "ok"
    /\ Len(ret.rows) = 1
    /\ Len(db.rows) = 2
    /\ db.rows[1].status = db.rows[2].status
    /\ db.rows[1].user_id # db.rows[2].user_id

\* C15: getAllTasks returns its rows by falling created_at, and of two rows
\* with the same created_at the one with the higher id comes first.
C15_GetAllOrder ==
    [][\A c \in Callers : \A userId \in UserIds :
         (Usable(db) /\ GetAllTasksBody(c, userId))
         => \A i \in 1..(Len(ret'.rows) - 1) :
              \/ ret'.rows[i].created_at > ret'.rows[i + 1].created_at
              \/ /\ ret'.rows[i].created_at = ret'.rows[i + 1].created_at
                 /\ ret'.rows[i].id > ret'.rows[i + 1].id]_vars

\* C16: deleteTask on an id that has no row (never created, or already
\* deleted) reports success, never an error, and leaves the table as it
\* is; deleting the same id twice leaves the same table as deleting it once.
C16_DeleteAbsentSucceeds ==
    [][\A c \in Callers : \A id \in Ids : \A quota \in BOOLEAN :
         (Usable(db) /\ DeleteBody(c, id, quota))
         => (/\ Delete(db', id) = db'
             /\ SelectById(db, id) = <<>>
                => (/\ db'.rows = db.rows
                    /\ ret'.name = "deleteTask" /\ ret'.outcome = "ok"))]_vars

\* C17: updateTask on an id that has no row changes no row, and the call
\* ends with a not-found outcome (no task is returned), which tells it from
\* an update that succeeded.
C17_UpdateMissingIsNotFound ==
    [][\A c \in Callers :
         /\ \A id \in Ids : \A u \in UpdateInputs : \A t \in 0..MaxTime :
            \A quota \in BOOLEAN :
              (/\ Usable(db) /\ u # <<>> /\ Prepares(u)
               /\ SelectById(db, id) = <<>>
               /\ UpdateBody(c, id, u, t, quota))
              => db'.rows = db.rows
         /\ (/\ pc[c] = "gBody" /\ op[c].name = "updateTask"
             /\ callNo[c] \in missed
             /\ GetByIdBody(c, target[c]))
            => ret'.rows = <<>>]_vars

\* C18: the embedded store and the REST path give the same outcome for the
\* same request: an input one of them rejects the other rejects too (same
\* validation rules and enum sets), and deleting an id that has no row ends
\* the same way on both.
C18_SameAsRest ==
    [][\A c \in Callers :
         /\ \A a \in CreateInputs : \A t \in 0..MaxTime :
              (Usable(db) /\ CreateBody(c, a, t, FALSE))
              => (Rejects(c) <=> PostTask(a) >= 400)
         /\ \A id \in Ids : \A u \in UpdateInputs : \A t \in 0..MaxTime :
              (Usable(db) /\ SelectById(db, id) # <<>>
               /\ UpdateBody(c, id, u, t, FALSE))
              => (Rejects(c) <=> PutTask(u, TRUE) >= 400)
         /\ \A id \in Ids :
              (Usable(db) /\ SelectById(db, id) = <<>>
               /\ DeleteBody(c, id, FALSE))
              => (Rejects(c) <=> DeleteTask(FALSE) >= 400)]_vars

\* C19: no statement of a public method runs against the engine before an
\* initialization has completed: whenever a call is past its
\* `await this.initialize()`, this.db is a database and the schema step has
\* run on it.
C19_NoAccessBeforeInit ==
    \A c \in Callers : pc[c] \in {"body", "gBody"} => Usable(db)

C19_Witness ==
    /\ engines = 2
    /\ \E c \in Callers : pc[c] = "body"
    /\ \E c \in Callers : pc[c] = "gBody"
    /\ Usable(db) /\ db.rows # <<>>

\* C20: nothing of another call runs between a call's mutation, its save
\* and the re-read of the row it returns: createTask resolves with the row
\* it inserted, and an updateTask that hit a row resolves with that row
\* carrying every value it wrote.
C20_NoInterleaving ==
    [][\A c \in Callers :
         (pc[c] = "gBody" /\ Mutating(op[c]) /\ callNo[c] \notin missed
          /\ GetByIdBody(c, target[c]))
         => (/\ Len(ret'.rows) = 1
             /\ LET row == ret'.rows[1] IN
                IF op[c].name = "createTask"
                THEN /\ row.title = op[c].args[1]
                     /\ row.description = op[c].args[2]
                     /\ row.priority = PriorityArg(op[c].args[3])
                     /\ row.user_id = op[c].args[4]
                     /\ row.status = "pending"
                ELSE \A i \in 1..Len(op[c].updates) :
                        row[op[c].updates[i][1]] = op[c].updates[i][2])]_vars

\* C21: every stored task has updated_at not earlier than created_at.
C21_UpdatedNotBeforeCreated ==
    \A i \in 1..Len(db.rows) : db.rows[i].updated_at >= db.rows[i].created_at

\* C22: an updateTask of an existing row with valid recognized fields sets
\* exactly those fields to the given values, sets updated_at to the current
\* time, leaves the other columns, writes the snapshot of the result to the
\* slot, and resolves with the row as getTaskById finds it.
C22_UpdateSemantics ==
    [][\A c \in Callers :
         /\ \A id \in Ids : \A u \in UpdateInputs : \A t \in 0..MaxTime :
              (/\ Usable(db) /\ u # <<>> /\ ~InvalidUpdate(u)
               /\ KeySet(u) \subseteq SettableFields
               /\ SelectById(db, id) # <<>>
               /\ UpdateBody(c, id, u, t, FALSE))
              => (/\ Len(SelectById(db', id)) = 1
                  /\ \A col \in Columns :
                       SelectById(db', id)[1][col] =
                         IF col \in KeySet(u) THEN Field(u, col)
                         ELSE IF col = "updated_at" THEN t
                         ELSE SelectById(db, id)[1][col]
                  /\ now' = t /\ t >= now
                  /\ slot' = Encode(db')
                  /\ target'[c] = id /\ pc'[c] = "gBody")
         /\ (/\ pc[c] = "gBody" /\ op[c].name = "updateTask"
             /\ GetByIdBody(c, target[c]))
            => (/\ ret'.outcome = "ok"
                /\ ret'.rows =
                     SelectSeq(db.rows, LAMBDA r : r.id = op[c].id))]_vars

C22_Witness ==
    /\ ret.name = "updateTask" /\ ret.outcome = "ok"
    /\ Len(ret.rows) = 1
    /\ ret.rows[1].status = "completed" /\ ret.rows[1].title = "a"
    /\ ret.rows[1].created_at = 0 /\ ret.rows[1].updated_at = 1
    /\ SelectById(db, 1) = ret.rows
    /\ slot = Encode(db)

\* C23: initialize() entered after an initialization has succeeded is a
\* no-op: the caller goes straight on, the engine instance is not replaced,
\* no schema step runs, the slot is neither read nor written and the rows
\* stay as they are.
C23_InitializeIsNoOpAfterSuccess ==
    [][\A c \in Callers :
         /\ (initialized /\ Call(c))
            => (/\ pc'[c] = "body"
                /\ UNCHANGED <<db, slot, engines, initialized>>)
         /\ (initialized /\ pc[c] = "body" /\ pc'[c] \notin {"body", "idle"})
            => (pc'[c] = "gBody" /\ engines' = engines)]_vars

C23_Witness ==
    /\ initialized /\ engines = 1
    /\ calls = 2
    /\ \E c \in Callers : pc[c] = "body" /\ callNo[c] = 2
    /\ acked = {1}
    /\ db.rows # <<>>

\* C24: when a second caller's initialization finishes after the store is
\* already initialized and replaces the engine by one loaded from the slot,
\* the new engine holds exactly the state of the last successful save: every
\* mutation saved before is there (no saved task lost, no deleted task
\* back), every call that resolved is reflected, and the slot still holds
\* that state afterwards.
C24_ReplacementKeepsCommitted ==
    [][\A c \in Callers : \A quota \in BOOLEAN :
         (initialized /\ InitResume(c, quota))
         => (/\ db'.rows = durable.rows
             /\ db'.seq = durable.seq
             /\ Usable(db')
             /\ slotMuts \subseteq memMuts'
             /\ acked \subseteq memMuts'
             /\ durable' = durable
             /\ slot' = Encode(durable))]_vars

C24_Witness ==
    /\ engines = 2 /\ initialized
    /\ acked = {1} /\ slotMuts = {1} /\ memMuts = {1}
    /\ \E c \in Callers : pc[c] = "body" /\ callNo[c] = 2
    /\ Len(db.rows) = 2
    /\ db = durable

\* C25: when the save after a mutation fails, the slot keeps the previous
\* snapshot and the mutation stays in the in-memory engine for as long as
\* the process lives; the next mutating call whose save succeeds stores it
\* too, so the slot is again the encoding of the whole engine.
C25_FailedSaveCaughtUp ==
    [][/\ \A c \in Callers :
            (pc[c] = "body" /\ Rejects(c) /\ quotas' # quotas)
            => (slot' = slot /\ callNo[c] \in memMuts')
       /\ restarts' = restarts => (memMuts \ slotMuts) \subseteq memMuts'
       /\ \A c \in Callers :
            (pc[c] = "body" /\ callNo[c] \in slotMuts' \ slotMuts)
            => (/\ memMuts \subseteq slotMuts'
                /\ slotMuts' = memMuts'
                /\ slot' = Encode(db'))]_vars

\* C26: an initialization that fails on an undecodable snapshot leaves the
\* slot exactly as it was and the store uninitialized (the stored data is
\* not overwritten by an empty snapshot), and a call that arrives while the
\* store is uninitialized attempts the initialization again.
C26_FailedInitLeavesSlot ==
    [][\A c \in Callers :
         /\ \A quota \in BOOLEAN :
              (Undecodable(slot) /\ InitResume(c, quota) /\ Rejects(c))
              => (slot' = slot /\ ~initialized')
         /\ (~initialized /\ Call(c)) => pc'[c] = "init"]_vars

C26_Witness ==
    /\ Undecodable(slot) /\ slot.text # <<>>
    /\ ~initialized
    /\ ret.outcome = "rejected"
    /\ calls = 2
    /\ \E c \in Callers : pc[c] = "init" /\ callNo[c] = 2
    /\ engines = 1 /\ ~Usable(db)

\* in this step the table changes at most in the row with the given id:
\* every other row is still there with all its fields, and no row is added
OnlyRowChanges(id) ==
    /\ \A i \in 1..Len(db.rows) :
         db.rows[i].id # id => db.rows[i] \in Range(db'.rows)
    /\ \A j \in 1..Len(db'.rows) :
         db'.rows[j].id = id \/ db'.rows[j] \in Range(db.rows)
    /\ Len(db'.rows) <= Len(db.rows)

\* C27: updateTask and deleteTask affect only the row with the given id:
\* every other row, of any user, keeps all its fields (updated_at
\* included), and no row is added.
C27_UpdateDeleteFrame ==
    [][\A c \in Callers : \A id \in Ids :
         /\ \A u \in UpdateInputs : \A t \in 0..MaxTime : \A quota \in BOOLEAN :
              (Usable(db) /\ UpdateBody(c, id, u, t, quota))
              => OnlyRowChanges(id)
         /\ \A quota \in BOOLEAN :
              (Usable(db) /\ DeleteBody(c, id, quota))
              => OnlyRowChanges(id)]_vars

C27_Witness ==
    /\ ret.name = "deleteTask" /\ ret.outcome = "ok"
    /\ everSaved = {1, 2}
    /\ db.rows = SeedOne.rows
    /\ slot = Encode(db)

\* pending call c runs the body of one of the four read operations
ReadBody(c) ==
    /\ pc[c] = "body"
    /\ \/ \E id \in Ids : GetByIdBody(c, id)
       \/ \E userId \in UserIds : GetAllTasksBody(c, userId)
       \/ \E status \in StatusEnum : \E userId \in UserIds :
             GetTasksByStatusBody(c, status, userId)
       \/ \E priority \in PriorityEnum : \E userId \in UserIds :
             GetTasksByPriorityBody(c, priority, userId)

\* C28: after initialization the read operations getAllTasks, getTaskById,
\* getTasksByStatus and getTasksByPriority leave the engine's rows, the id
\* counter and the durable slot unchanged: a call made once the flag is set
\* passes initialize() without touching them, and so does the body.
C28_ReadsChangeNothing ==
    [][\A c \in Callers :
         /\ (initialized /\ Call(c))
            => (pc'[c] = "body" /\ db' = db /\ slot' = slot)
         /\ (initialized /\ ReadBody(c))
            => (db'.rows = db.rows /\ db'.seq = db.seq /\ slot' = slot)]_vars

C28_Witness ==
    /\ initialized
    /\ ret.name = "getTasksByPriority" /\ ret.outcome = "ok"
    /\ ret.rows # <<>>
    /\ Len(db.rows) = 2
    /\ slot # Encode(db)
    /\ calls = 2

\* C29: updateTask called with an empty set of fields changes nothing: the
\* body modifies no row, does not refresh updated_at and does not rewrite
\* the slot; it hands over to getTaskById, whose result is the row the table
\* then has for that id, or nothing (not found) if it has none.
C29_EmptyUpdateChangesNothing ==
    [][\A c \in Callers : \A id \in Ids :
         /\ \A t \in 0..MaxTime : \A quota \in BOOLEAN :
              UpdateBody(c, id, <<>>, t, quota)
              => (/\ db' = db /\ slot' = slot /\ now' = now
                  /\ pc'[c] = "gBody" /\ target'[c] = id
                  /\ ~Mutating(op'[c]))
         /\ (/\ pc[c] = "gBody" /\ op[c] = UpdateOp(id, <<>>)
             /\ Usable(db)
             /\ GetByIdBody(c, id))
            => (/\ db' = db /\ slot' = slot
                /\ ret'.name = "updateTask" /\ ret'.outcome = "ok"
                /\ ret'.rows = SelectSeq(db.rows, LAMBDA r : r.id = id)
                /\ acked' = acked)]_vars

C29_Witness ==
    /\ ret.name = "updateTask" /\ ret.outcome = "ok"
    /\ ret.rows = SeedOne.rows
    /\ db.rows = SeedOne.rows
    /\ slot = Encode(db)
    /\ memMuts = {} /\ acked = {}
    /\ calls = 1 /\ restarts = 0

====
